---- MODULE Spec2Model ----
(***************************************************************************)
(* SpectraSync (mashhadmonitoring/sa): the numeric analysis pipeline of    *)
(* utils/mathUtils (alignment, smoothing, normalization, five metrics) and *)
(* the report assembler and UI state of App.                               *)
(*                                                                         *)
(* Numbers.  A JavaScript number is modelled as an exact extended          *)
(* rational <<n, d>> in lowest terms: d > 0 is the finite value n/d,       *)
(* <<1,0>> and <<-1,0>> are +Infinity and -Infinity, <<0,0>> is NaN.       *)
(* The functions whose result depends on rounding (interpolate,           *)
(* calculatePearson) are also given in floating point, with every          *)
(* arithmetic result rounded to MantissaBits significant bits (the Fl      *)
(* definitions, SpecFloat).  Signed zeros are not                          *)
(* distinguished.  A square root is kept exactly as a signed root          *)
(* [s, q] (the real s * sqrt(q)); the SID sum of logarithms is kept as its *)
(* sequence of terms; the constant 1e-10 is kept as the symbol EPS in a    *)
(* form a + e*EPS.                                                         *)
(***************************************************************************)
EXTENDS Integers, Sequences, FiniteSets, TLC

\* ------------------------------------------------------------------------
\* Number arithmetic (JavaScript number operators, exact)
\* ------------------------------------------------------------------------

Abs(n) == IF n < 0 THEN -n ELSE n

Sign(n) == IF n < 0 THEN -1 ELSE IF n > 0 THEN 1 ELSE 0

RECURSIVE Gcd(_, _)
Gcd(a, b) == IF b = 0 THEN a ELSE Gcd(b, a % b)

\* n/d in lowest terms with a positive denominator; d = 0 keeps only the sign.
Norm(n, d) ==
    IF d = 0 THEN <<Sign(n), 0>>
    ELSE LET g == Gcd(Abs(n), Abs(d))
             s == IF d < 0 THEN -1 ELSE 1
         IN  <<(s * n) \div g, (s * d) \div g>>

IntR(n) == <<n, 1>>

Zero == <<0, 1>>

One == <<1, 1>>

NaN == <<0, 0>>

IsNaN(a) == a[2] = 0 /\ a[1] = 0

IsFinite(a) == a[2] > 0

\* a + b
RAdd(a, b) ==
    IF IsFinite(a) /\ IsFinite(b)
    THEN IF a[2] = b[2] THEN Norm(a[1] + b[1], a[2])
         ELSE LET g == Gcd(a[2], b[2])
              IN  Norm(a[1] * (b[2] \div g) + b[1] * (a[2] \div g), (a[2] \div g) * b[2])
    ELSE IF IsNaN(a) \/ IsNaN(b) THEN NaN
    ELSE IF IsFinite(a) THEN b
    ELSE IF IsFinite(b) THEN a
    ELSE IF a[1] = b[1] THEN a ELSE NaN

RNeg(a) == <<-a[1], a[2]>>

\* a - b
RSub(a, b) == RAdd(a, RNeg(b))

\* a * b
RMul(a, b) ==
    IF IsFinite(a) /\ IsFinite(b)
    THEN LET g1 == Gcd(Abs(a[1]), b[2])
             g2 == Gcd(Abs(b[1]), a[2])
         IN  <<(a[1] \div g1) * (b[1] \div g2), (a[2] \div g2) * (b[2] \div g1)>>
    ELSE <<Sign(a[1]) * Sign(b[1]), 0>>

\* 1 / a
RInv(a) ==
    IF IsNaN(a) THEN NaN
    ELSE IF ~IsFinite(a) THEN Zero
    ELSE IF a[1] = 0 THEN <<1, 0>>
    ELSE Norm(a[2], a[1])

\* a / b: x/0 is an infinity, 0/0 is NaN
RDiv(a, b) == IF IsNaN(a) \/ IsNaN(b) THEN NaN ELSE RMul(a, RInv(b))

\* a < b (false when either is NaN)
RLt(a, b) ==
    IF IsNaN(a) \/ IsNaN(b) THEN FALSE
    ELSE IF ~IsFinite(a) /\ ~IsFinite(b) THEN a[1] < b[1]
    ELSE a[1] * b[2] < b[1] * a[2]

\* a === b
REq(a, b) == ~IsNaN(a) /\ ~IsNaN(b) /\ a = b

\* a <= b
RLe(a, b) == RLt(a, b) \/ REq(a, b)

\* a >= b
RGe(a, b) == RLe(b, a)

\* Math.abs
RAbs(a) == <<Abs(a[1]), a[2]>>

\* Math.max(a, b) and Math.min(a, b): NaN when either is NaN
RMax(a, b) == IF IsNaN(a) \/ IsNaN(b) THEN NaN ELSE IF RLt(a, b) THEN b ELSE a

RMin(a, b) == IF IsNaN(a) \/ IsNaN(b) THEN NaN ELSE IF RLt(b, a) THEN b ELSE a

\* Math.floor of a finite number, as an integer
RFloor(a) == a[1] \div a[2]

\* values.reduce((s, v) => s + v, 0)
RECURSIVE RSum(_)
RSum(vs) == IF vs = <<>> THEN Zero ELSE RAdd(RSum(SubSeq(vs, 1, Len(vs) - 1)), vs[Len(vs)])

\* Math.min(...values) and Math.max(...values) of a non-empty array
RECURSIVE RMinOf(_)
RMinOf(vs) == IF Len(vs) = 1 THEN vs[1] ELSE RMin(RMinOf(SubSeq(vs, 1, Len(vs) - 1)), vs[Len(vs)])

RECURSIVE RMaxOf(_)
RMaxOf(vs) == IF Len(vs) = 1 THEN vs[1] ELSE RMax(RMaxOf(SubSeq(vs, 1, Len(vs) - 1)), vs[Len(vs)])

\* Signed roots: [s, q] is the real s * sqrt(q), q the square of the value.
FromR(a) == [s |-> Sign(a[1]), q |-> RMul(a, a)]

RootZero == FromR(Zero)

RootOne == FromR(One)

\* Math.sqrt(a): NaN for a negative or NaN argument
Sqrt(a) ==
    IF IsNaN(a) \/ RLt(a, Zero) THEN [s |-> 0, q |-> NaN]
    ELSE [s |-> Sign(a[1]), q |-> a]

\* x * y of two roots
RootMul(x, y) == [s |-> x.s * y.s, q |-> RMul(x.q, y.q)]

\* a / x, a number over a root
RootDiv(a, x) ==
    LET q == RDiv(RMul(a, a), x.q)
    IN  [s |-> IF IsFinite(q) THEN Sign(a[1]) * x.s ELSE Sign(q[1]) * Sign(a[1]), q |-> q]

\* x === 0 of a root
RootIsZero(x) == REq(x.q, Zero)

RootIsFinite(x) == IsFinite(x.q)

\* ------------------------------------------------------------------------
\* utils/mathUtils
\* ------------------------------------------------------------------------

\* The inner loop of applyMovingAverage for output index i (0-based): sum and
\* count over j = lo .. j, keeping only 0 <= j < values.length.
RECURSIVE WindowAcc(_, _, _)
WindowAcc(values, lo, j) ==
    IF j < lo THEN [sum |-> Zero, count |-> 0]
    ELSE LET acc == WindowAcc(values, lo, j - 1)
         IN  IF j >= 0 /\ j < Len(values)
             THEN [sum |-> RAdd(acc.sum, values[j + 1]), count |-> acc.count + 1]
             ELSE acc

\* applyMovingAverage dividing by the full window (zero padding at the ends)
applyMovingAveragePadded(values, window) ==
    IF window <= 1 \/ Len(values) = 0 THEN values
    ELSE LET half == window \div 2
         IN  [k \in 1..Len(values) |->
                LET acc == WindowAcc(values, (k - 1) - half, (k - 1) + half)
                IN  RDiv(acc.sum, IntR(2 * half + 1))]

\* applyMovingAverage with half = floor((window - 1) / 2)
applyMovingAverageEvenShort(values, window) ==
    IF window <= 1 \/ Len(values) = 0 THEN values
    ELSE LET half == (window - 1) \div 2
         IN  [k \in 1..Len(values) |->
                LET acc == WindowAcc(values, (k - 1) - half, (k - 1) + half)
                IN  RDiv(acc.sum, IntR(acc.count))]

applyMovingAverage(values, window) ==
    IF window <= 1 \/ Len(values) = 0 THEN values
    ELSE LET half == window \div 2
         IN  [k \in 1..Len(values) |->
                LET acc == WindowAcc(values, (k - 1) - half, (k - 1) + half)
                IN  RDiv(acc.sum, IntR(acc.count))]

\* data.findIndex(p => p.wavelength >= targetW), 0-based, -1 when there is none
findIndex(data, targetW) ==
    LET hits == {k \in 1..Len(data) : RGe(data[k].wavelength, targetW)}
    IN  IF hits = {} THEN -1
        ELSE (CHOOSE k \in hits : \A m \in hits : k <= m) - 1

interpolate(data, targetW) ==
    LET idx == findIndex(data, targetW)
    IN  IF idx <= 0 THEN data[1].absorption
        ELSE IF idx >= Len(data) THEN data[Len(data)].absorption
        ELSE LET p1 == data[idx]
                 p2 == data[idx + 1]
                 t  == RDiv(RSub(targetW, p1.wavelength),
                            RSub(p2.wavelength, p1.wavelength))
             IN  RAdd(p1.absorption, RMul(t, RSub(p2.absorption, p1.absorption)))

\* const step = 0.5
step == <<1, 2>>

\* The loop with w < maxW: the end of the overlap is left out
RECURSIVE overlapLoopExclusive(_, _, _, _)
overlapLoopExclusive(dataA, dataB, w, maxW) ==
    IF RLt(w, maxW)
    THEN <<[x |-> w, yA |-> interpolate(dataA, w), yB |-> interpolate(dataB, w)]>>
         \o overlapLoopExclusive(dataA, dataB, RAdd(w, step), maxW)
    ELSE <<>>

\* for (let w = minW; w <= maxW; w += step) common.push(...)
RECURSIVE overlapLoop(_, _, _, _)
overlapLoop(dataA, dataB, w, maxW) ==
    IF RLe(w, maxW)
    THEN <<[x |-> w, yA |-> interpolate(dataA, w), yB |-> interpolate(dataB, w)]>>
         \o overlapLoop(dataA, dataB, RAdd(w, step), maxW)
    ELSE <<>>

getOverlapData(dataA, dataB) ==
    IF Len(dataA) = 0 \/ Len(dataB) = 0 THEN <<>>
    ELSE LET minW == RMax(dataA[1].wavelength, dataB[1].wavelength)
             maxW == RMin(dataA[Len(dataA)].wavelength, dataB[Len(dataB)].wavelength)
         IN  overlapLoop(dataA, dataB, minW, maxW)

Methods == {"none", "area", "minmax"}

\* normalizeValues whose area sum adds b instead of Math.abs(b)
normalizeValuesSigned(values, method) ==
    IF method = "none" \/ Len(values) = 0 THEN values
    ELSE IF method = "area"
    THEN LET sum == RSum(values)
         IN  IF REq(sum, Zero) THEN values
             ELSE [k \in 1..Len(values) |-> RDiv(values[k], sum)]
    ELSE IF method = "minmax"
    THEN LET min == RMinOf(values)
             max == RMaxOf(values)
             range == RSub(max, min)
         IN  IF REq(range, Zero) THEN [k \in 1..Len(values) |-> Zero]
             ELSE [k \in 1..Len(values) |-> RDiv(RSub(values[k], min), range)]
    ELSE values

\* normalizeValues without the zero-sum and zero-range guards
normalizeValuesUnguarded(values, method) ==
    IF method = "none" \/ Len(values) = 0 THEN values
    ELSE IF method = "area"
    THEN LET sum == RSum([k \in 1..Len(values) |-> RAbs(values[k])])
         IN  [k \in 1..Len(values) |-> RDiv(values[k], sum)]
    ELSE IF method = "minmax"
    THEN LET min == RMinOf(values)
             max == RMaxOf(values)
             range == RSub(max, min)
         IN  [k \in 1..Len(values) |-> RDiv(RSub(values[k], min), range)]
    ELSE values

\* normalizeValues whose min-max branch divides by max instead of max - min
normalizeValuesByMax(values, method) ==
    IF method = "none" \/ Len(values) = 0 THEN values
    ELSE IF method = "area"
    THEN LET sum == RSum([k \in 1..Len(values) |-> RAbs(values[k])])
         IN  IF REq(sum, Zero) THEN values
             ELSE [k \in 1..Len(values) |-> RDiv(values[k], sum)]
    ELSE IF method = "minmax"
    THEN LET min == RMinOf(values)
             max == RMaxOf(values)
             range == RSub(max, min)
         IN  IF REq(range, Zero) THEN [k \in 1..Len(values) |-> Zero]
             ELSE [k \in 1..Len(values) |-> RDiv(RSub(values[k], min), max)]
    ELSE values

normalizeValues(values, method) ==
    IF method = "none" \/ Len(values) = 0 THEN values
    ELSE IF method = "area"
    THEN LET sum == RSum([k \in 1..Len(values) |-> RAbs(values[k])])
         IN  IF REq(sum, Zero) THEN values
             ELSE [k \in 1..Len(values) |-> RDiv(values[k], sum)]
    ELSE IF method = "minmax"
    THEN LET min == RMinOf(values)
             max == RMaxOf(values)
             range == RSub(max, min)
         IN  IF REq(range, Zero) THEN [k \in 1..Len(values) |-> Zero]
             ELSE [k \in 1..Len(values) |-> RDiv(RSub(values[k], min), range)]
    ELSE values

ColA(common) == [k \in 1..Len(common) |-> common[k].yA]

ColB(common) == [k \in 1..Len(common) |-> common[k].yB]

\* common.reduce((s, p) => s + u(p) * v(p), 0) for two columns u, v
SumProd(u, v) == RSum([k \in 1..Len(u) |-> RMul(u[k], v[k])])

\* sum of Math.pow(u[i] - v[i], 2)
SumSqDiff(u, v) == RSum([k \in 1..Len(u) |-> RMul(RSub(u[k], v[k]), RSub(u[k], v[k]))])

calculatePearson(common) ==
    LET n == Len(common)
        a == ColA(common)
        b == ColB(common)
    IN  IF n < 2 THEN RootZero
        ELSE LET sumA == RSum(a)
                 sumB == RSum(b)
                 sumASq == SumProd(a, a)
                 sumBSq == SumProd(b, b)
                 sumProd == SumProd(a, b)
                 num == RSub(RMul(IntR(n), sumProd), RMul(sumA, sumB))
                 den == Sqrt(RMul(RSub(RMul(IntR(n), sumASq), RMul(sumA, sumA)),
                                  RSub(RMul(IntR(n), sumBSq), RMul(sumB, sumB))))
             IN  IF RootIsZero(den) THEN RootZero ELSE RootDiv(num, den)

calculateRMSE(common, method) ==
    LET n == Len(common)
    IN  IF n = 0 THEN RootZero
        ELSE LET normA == normalizeValues(ColA(common), method)
                 normB == normalizeValues(ColB(common), method)
             IN  Sqrt(RDiv(SumSqDiff(normA, normB), IntR(n)))

calculateEuclidean(common, method) ==
    IF Len(common) = 0 THEN RootZero
    ELSE LET normA == normalizeValues(ColA(common), method)
             normB == normalizeValues(ColB(common), method)
         IN  Sqrt(SumSqDiff(normA, normB))

calculateCosineSimilarity(common) ==
    LET a == ColA(common)
        b == ColB(common)
        dotProduct == SumProd(a, b)
        magA == Sqrt(SumProd(a, a))
        magB == Sqrt(SumProd(b, b))
    IN  IF RootIsZero(magA) \/ RootIsZero(magB) THEN RootZero
        ELSE RootDiv(dotProduct, RootMul(magA, magB))

\* Numbers of calculateSID.  1e-10 is kept as the symbol EPS: [a, e] is the
\* number a + e*EPS.  Every finite positive number of this model has a
\* denominator below 2^31, hence is above 1e-10, so y >= 1e-10 iff y > 0.
\* Math.max(1e-10, y)
floorEps(y) ==
    IF IsNaN(y) THEN [a |-> NaN, e |-> 0]
    ELSE IF RLt(Zero, y) THEN [a |-> y, e |-> 0]
    ELSE [a |-> Zero, e |-> 1]

\* values.reduce((a, b) => a + Math.abs(b), 0) over floored values
RECURSIVE ESumAbs(_)
ESumAbs(fs) ==
    IF fs = <<>> THEN [a |-> Zero, e |-> 0]
    ELSE LET acc == ESumAbs(SubSeq(fs, 1, Len(fs) - 1))
             f == fs[Len(fs)]
         IN  [a |-> RAdd(acc.a, RAbs(f.a)), e |-> acc.e + Abs(f.e)]

\* normalizeValues(floored, 'area'): each entry is the quotient v / s
normalizeAreaEps(fs) ==
    IF Len(fs) = 0 THEN fs
    ELSE LET sum == ESumAbs(fs)
         IN  IF REq(sum.a, Zero) /\ sum.e = 0
             THEN [k \in 1..Len(fs) |-> [v |-> fs[k], s |-> [a |-> One, e |-> 0]]]
             ELSE [k \in 1..Len(fs) |-> [v |-> fs[k], s |-> sum]]

\* The value is the sum over k of (p[k] - q[k]) * (Math.log(p[k]) - Math.log(q[k])),
\* kept as the sequence of its (p[k], q[k]).
\* calculateSID that floors yA only
calculateSIDFloorA(common) ==
    LET p == normalizeAreaEps([k \in 1..Len(common) |-> floorEps(common[k].yA)])
        q == normalizeAreaEps([k \in 1..Len(common) |-> [a |-> common[k].yB, e |-> 0]])
    IN  [k \in 1..Len(p) |-> [p |-> p[k], q |-> q[k]]]

calculateSID(common) ==
    LET p == normalizeAreaEps([k \in 1..Len(common) |-> floorEps(common[k].yA)])
        q == normalizeAreaEps([k \in 1..Len(common) |-> floorEps(common[k].yB)])
    IN  [k \in 1..Len(p) |-> [p |-> p[k], q |-> q[k]]]

\* a + e*EPS > 0 (and finite)
EPos(x) == IsFinite(x.a) /\ (RLt(Zero, x.a) \/ (x.a = Zero /\ x.e > 0))

\* (a1 + e1*EPS) * (a2 + e2*EPS) as the coefficients of 1, EPS, EPS^2
EMul(x, y) ==
    <<RMul(x.a, y.a), RAdd(RMul(x.a, IntR(y.e)), RMul(y.a, IntR(x.e))), x.e * y.e>>

\* v1/s1 = v2/s2 for two quotients with positive divisors.  The coefficients
\* are small rationals, so the two sides are equal at EPS = 1e-10 exactly
\* when they are equal coefficient by coefficient.
QEq(p, q) == EMul(p.v, q.s) = EMul(q.v, p.s)

\* Every Math.log argument is a finite positive number.
SidIsFinite(sid) ==
    \A k \in 1..Len(sid) :
        /\ EPos(sid[k].p.v) /\ EPos(sid[k].p.s)
        /\ EPos(sid[k].q.v) /\ EPos(sid[k].q.s)

\* Each term (p - q)(ln p - ln q) is >= 0, so the sum is 0 iff p[k] = q[k] for all k.
SidIsZero(sid) == \A k \in 1..Len(sid) : QEq(sid[k].p, sid[k].q)

\* ------------------------------------------------------------------------
\* utils/mathUtils in floating point.  A JavaScript number is a binary
\* floating-point number and every +, -, *, / rounds its exact result to the
\* nearest one, ties to the even significand.  The significand has
\* MantissaBits bits here (53 in binary64); the exponent is not bounded, so
\* nothing overflows or underflows.
\* ------------------------------------------------------------------------

MantissaBits == 10

RECURSIVE Pow2(_)
Pow2(k) == IF k = 0 THEN 1 ELSE 2 * Pow2(k - 1)

\* a > 0 scaled by a power of two into [2^(MantissaBits-1), 2^MantissaBits):
\* <<a / 2^e, e>>
RECURSIVE FlScale(_, _)
FlScale(a, e) ==
    IF RGe(a, IntR(Pow2(MantissaBits))) THEN FlScale(RMul(a, <<1, 2>>), e + 1)
    ELSE IF RLt(a, IntR(Pow2(MantissaBits - 1))) THEN FlScale(RMul(a, IntR(2)), e - 1)
    ELSE <<a, e>>

\* The integer nearest to a >= 0, the even one of the two at a tie
RoundHalfEven(a) ==
    LET f == RFloor(a)
        r == RSub(a, IntR(f))
    IN  IF RLt(r, <<1, 2>>) THEN f
        ELSE IF RLt(<<1, 2>>, r) THEN f + 1
        ELSE IF f % 2 = 0 THEN f ELSE f + 1

\* The floating-point number nearest to the exact result a
Fl(a) ==
    IF ~IsFinite(a) \/ a[1] = 0 THEN a
    ELSE LET sc == FlScale(RAbs(a), 0)
             m == RoundHalfEven(sc[1])
             mag == IF sc[2] >= 0 THEN IntR(m * Pow2(sc[2])) ELSE Norm(m, Pow2(-sc[2]))
         IN  IF a[1] < 0 THEN RNeg(mag) ELSE mag

FAdd(a, b) == Fl(RAdd(a, b))

FSub(a, b) == Fl(RSub(a, b))

FMul(a, b) == Fl(RMul(a, b))

FDiv(a, b) == Fl(RDiv(a, b))

\* values.reduce((s, v) => s + v, 0), each addition rounded
RECURSIVE FSum(_)
FSum(vs) == IF vs = <<>> THEN Zero ELSE FAdd(FSum(SubSeq(vs, 1, Len(vs) - 1)), vs[Len(vs)])

\* common.reduce((s, p) => s + u(p) * v(p), 0), each product and addition rounded
FSumProd(u, v) == FSum([k \in 1..Len(u) |-> FMul(u[k], v[k])])

\* interpolate: p1.absorption + t * (p2.absorption - p1.absorption)
interpolateFl(data, targetW) ==
    LET idx == findIndex(data, targetW)
    IN  IF idx <= 0 THEN data[1].absorption
        ELSE IF idx >= Len(data) THEN data[Len(data)].absorption
        ELSE LET p1 == data[idx]
                 p2 == data[idx + 1]
                 t  == FDiv(FSub(targetW, p1.wavelength),
                            FSub(p2.wavelength, p1.wavelength))
             IN  FAdd(p1.absorption, FMul(t, FSub(p2.absorption, p1.absorption)))

\* for (let w = minW; w <= maxW; w += step) common.push(...)
RECURSIVE overlapLoopFl(_, _, _, _)
overlapLoopFl(dataA, dataB, w, maxW) ==
    IF RLe(w, maxW)
    THEN <<[x |-> w, yA |-> interpolateFl(dataA, w), yB |-> interpolateFl(dataB, w)]>>
         \o overlapLoopFl(dataA, dataB, FAdd(w, step), maxW)
    ELSE <<>>

getOverlapDataFl(dataA, dataB) ==
    IF Len(dataA) = 0 \/ Len(dataB) = 0 THEN <<>>
    ELSE LET minW == RMax(dataA[1].wavelength, dataB[1].wavelength)
             maxW == RMin(dataA[Len(dataA)].wavelength, dataB[Len(dataB)].wavelength)
         IN  overlapLoopFl(dataA, dataB, minW, maxW)

\* calculatePearson.  The argument of Math.sqrt is computed with rounding;
\* the square root and the final division are kept as a signed root, which
\* is 0, NaN or non-zero exactly when the rounded value is.
calculatePearsonFl(common) ==
    LET n == Len(common)
        a == ColA(common)
        b == ColB(common)
    IN  IF n < 2 THEN RootZero
        ELSE LET sumA == FSum(a)
                 sumB == FSum(b)
                 sumASq == FSumProd(a, a)
                 sumBSq == FSumProd(b, b)
                 sumProd == FSumProd(a, b)
                 num == FSub(FMul(IntR(n), sumProd), FMul(sumA, sumB))
                 den == Sqrt(FMul(FSub(FMul(IntR(n), sumASq), FMul(sumA, sumA)),
                                  FSub(FMul(IntR(n), sumBSq), FMul(sumB, sumB))))
             IN  IF RootIsZero(den) THEN RootZero ELSE RootDiv(num, den)

\* ------------------------------------------------------------------------
\* App: the report assembler (similarityMatrix)
\* ------------------------------------------------------------------------

MAX_ALLOWED_WAVELENGTH == 300

IntMin(a, b) == IF a < b THEN a ELSE b

\* filteredCommon with the upper bound rangeMax alone
filteredCommonUncapped(common, rangeMin, rangeMax) ==
    SelectSeq(common,
              LAMBDA p : /\ RGe(p.x, IntR(rangeMin))
                         /\ RLe(p.x, IntR(rangeMax)))

\* common.filter(p => p.x >= rangeMin && p.x <= Math.min(rangeMax, MAX_ALLOWED_WAVELENGTH))
filteredCommon(common, rangeMin, rangeMax) ==
    SelectSeq(common,
              LAMBDA p : /\ RGe(p.x, IntR(rangeMin))
                         /\ RLe(p.x, IntR(IntMin(rangeMax, MAX_ALLOWED_WAVELENGTH))))

\* calcMethod without the substitution of 'area' for 'none'
calcMethodVerbatim(normMethod) == normMethod

\* const calcMethod = normMethod === 'none' ? 'area' : normMethod
calcMethod(normMethod) == IF normMethod = "none" THEN "area" ELSE normMethod

\* smoothedFilteredCommon that smooths yA and leaves yB as filtered
smoothedFilteredCommonOnlyA(filtered, smoothingEnabled, smoothingWindow) ==
    LET yA == IF smoothingEnabled
              THEN applyMovingAverage(ColA(filtered), smoothingWindow)
              ELSE ColA(filtered)
        yB == ColB(filtered)
    IN  [k \in 1..Len(filtered) |-> [x |-> filtered[k].x, yA |-> yA[k], yB |-> yB[k]]]

\* yA, yB smoothed when enabled, re-paired with the filtered points by position
smoothedFilteredCommon(filtered, smoothingEnabled, smoothingWindow) ==
    LET yA == IF smoothingEnabled
              THEN applyMovingAverage(ColA(filtered), smoothingWindow)
              ELSE ColA(filtered)
        yB == IF smoothingEnabled
              THEN applyMovingAverage(ColB(filtered), smoothingWindow)
              ELSE ColB(filtered)
    IN  [k \in 1..Len(filtered) |-> [x |-> filtered[k].x, yA |-> yA[k], yB |-> yB[k]]]

\* pairPoints that smooths the aligned points first and filters afterwards
pairPointsSmoothFirst(sA, sB, cfg) ==
    filteredCommon(
        smoothedFilteredCommon(getOverlapData(sA.data, sB.data),
                               cfg.smoothingEnabled, cfg.smoothingWindow),
        cfg.rangeMin, cfg.rangeMax)

\* The points the metrics of the pair (sA, sB) are computed on.
\* cfg = [rangeMin, rangeMax, normMethod, smoothingEnabled, smoothingWindow]
pairPoints(sA, sB, cfg) ==
    smoothedFilteredCommon(
        filteredCommon(getOverlapData(sA.data, sB.data), cfg.rangeMin, cfg.rangeMax),
        cfg.smoothingEnabled, cfg.smoothingWindow)

\* similarityResult with the cosine taken on the normalized values
similarityResultCosineNormalized(sA, sB, cfg) ==
    LET pts == pairPoints(sA, sB, cfg)
        nA == normalizeValues(ColA(pts), calcMethod(cfg.normMethod))
        nB == normalizeValues(ColB(pts), calcMethod(cfg.normMethod))
    IN  [sampleA   |-> sA.name,
         sampleB   |-> sB.name,
         pearson   |-> calculatePearson(pts),
         rmse      |-> calculateRMSE(pts, calcMethod(cfg.normMethod)),
         euclidean |-> calculateEuclidean(pts, calcMethod(cfg.normMethod)),
         cosine    |-> calculateCosineSimilarity(
                           [k \in 1..Len(pts) |-> [x |-> pts[k].x, yA |-> nA[k], yB |-> nB[k]]]),
         sid       |-> calculateSID(pts)]

\* The object pushed to results for one pair
similarityResult(sA, sB, cfg) ==
    LET pts == pairPoints(sA, sB, cfg)
    IN  [sampleA   |-> sA.name,
         sampleB   |-> sB.name,
         pearson   |-> calculatePearson(pts),
         rmse      |-> calculateRMSE(pts, calcMethod(cfg.normMethod)),
         euclidean |-> calculateEuclidean(pts, calcMethod(cfg.normMethod)),
         cosine    |-> calculateCosineSimilarity(pts),
         sid       |-> calculateSID(pts)]

\* The inner loop testing common.length instead of filteredCommon.length
RECURSIVE innerLoopUnfiltered(_, _, _, _)
innerLoopUnfiltered(ss, i, j, cfg) ==
    IF j > Len(ss) THEN <<>>
    ELSE (IF Len(getOverlapData(ss[i].data, ss[j].data)) > 0
          THEN <<[i |-> i, j |-> j, result |-> similarityResult(ss[i], ss[j], cfg)]>>
          ELSE <<>>)
         \o innerLoopUnfiltered(ss, i, j + 1, cfg)

\* for (let j = ...; j < samples.length; j++): the pushes of the inner loop
\* from j on (1-based), each tagged with the index pair it was made for.
RECURSIVE innerLoop(_, _, _, _)
innerLoop(ss, i, j, cfg) ==
    IF j > Len(ss) THEN <<>>
    ELSE (IF Len(filteredCommon(getOverlapData(ss[i].data, ss[j].data),
                                cfg.rangeMin, cfg.rangeMax)) > 0
          THEN <<[i |-> i, j |-> j, result |-> similarityResult(ss[i], ss[j], cfg)]>>
          ELSE <<>>)
         \o innerLoop(ss, i, j + 1, cfg)

\* The outer loop with the inner loop started at j = i
RECURSIVE outerLoopFromSelf(_, _, _)
outerLoopFromSelf(ss, i, cfg) ==
    IF i > Len(ss) THEN <<>>
    ELSE innerLoop(ss, i, i, cfg) \o outerLoopFromSelf(ss, i + 1, cfg)

\* for (let i = ...; i < samples.length; i++) for (let j = i + 1; ...)
RECURSIVE outerLoop(_, _, _)
outerLoop(ss, i, cfg) ==
    IF i > Len(ss) THEN <<>>
    ELSE innerLoop(ss, i, i + 1, cfg) \o outerLoop(ss, i + 1, cfg)

\* The pushes of the whole double loop, in order
pushes(ss, cfg) == outerLoop(ss, 1, cfg)

\* results: what the useMemo returns
buildSimilarityMatrix(ss, cfg) ==
    LET ps == pushes(ss, cfg) IN [k \in 1..Len(ps) |-> ps[k].result]

\* ------------------------------------------------------------------------
\* State
\* ------------------------------------------------------------------------

VARIABLES
    samples,            \* useState<WaterSample[]>: sequence of [id, name, data]
    rangeMin,           \* useState<number>(0)
    rangeMax,           \* useState<number>(MAX_ALLOWED_WAVELENGTH)
    normMethod,         \* useState<NormalizationMethod>('none')
    smoothingEnabled,   \* useState(false)
    smoothingWindow,    \* useState(5)
    aiResult,           \* useState<string | null>(null)
    analyzing,          \* useState(false)
    calls,              \* the handleAIAnalysis calls awaiting getAIAnalysis: their reports
    aiReport,           \* the ids of the samples of the report aiResult was computed from
    clicks,             \* the number of handleAIAnalysis calls made so far
    nextId,             \* the number of sample ids drawn so far
    fn,                 \* the mathUtils function applied on its own, or "idle"
    input,              \* its arguments
    output              \* its return value

sampleVars == <<samples, nextId>>

settingVars == <<rangeMin, rangeMax, normMethod, smoothingEnabled, smoothingWindow>>

aiVars == <<aiResult, analyzing, calls, aiReport, clicks>>

fnVars == <<fn, input, output>>

vars == <<sampleVars, settingVars, aiVars, fnVars>>

\* ------------------------------------------------------------------------
\* Bounds and input sets
\* ------------------------------------------------------------------------

\* Uploaded samples over the life of the page
MaxUploads == 3

\* Files picked in one file dialog
MaxFilesPerUpload == 2

\* Largest position of the smoothing slider that is tried (min 3, step 2)
MaxSliderWindow == 5

\* Length of a value sequence handed to a function on its own
MaxLen == 4

\* Largest value in such a sequence (the smallest is -1)
MaxVal == 2

\* Largest window handed to applyMovingAverage on its own (the smallest is -1)
MaxWindow == 6

\* Largest absorption in a generated spectrum (the smallest is 0)
MaxAbs == 1

RECURSIVE SeqOfSet(_)
SeqOfSet(S) ==
    IF S = {} THEN <<>>
    ELSE LET m == CHOOSE x \in S : \A y \in S : x <= y
         IN  <<m>> \o SeqOfSet(S \ {m})

\* Every spectrum whose wavelengths are some of ws (an increasing sequence),
\* in increasing order and without duplicates, with absorptions from abs.
SpectraOver(ws, abs) ==
    UNION { { [k \in 1..Cardinality(I) |->
                 [wavelength |-> ws[SeqOfSet(I)[k]], absorption |-> IntR(f[SeqOfSet(I)[k]])]]
              : f \in [I -> abs] }
            : I \in SUBSET (1..Len(ws)) }

\* The files of the user's disk: a name and the parsed, sorted rows.  "E" has
\* no usable row.
Point(w, a) == [wavelength |-> IntR(w), absorption |-> IntR(a)]

Files ==
    { [name |-> "A", data |-> <<Point(299, 1), Point(300, 2), Point(301, 1)>>],
      [name |-> "B", data |-> <<Point(298, 0), Point(300, 2), Point(301, 1)>>],
      [name |-> "C", data |-> <<Point(297, 1), Point(298, 3)>>],
      [name |-> "E", data |-> <<>>] }

RECURSIVE SeqsUpTo(_, _)
SeqsUpTo(S, n) ==
    IF n = 0 THEN {<<>>}
    ELSE LET shorter == SeqsUpTo(S, n - 1)
         IN  shorter \cup {Append(q, x) : q \in {r \in shorter : Len(r) = n - 1}, x \in S}

\* What the user can type into the two range fields (parseInt of it)
RangeInputs == {0, 299, 300, 301}

SliderWindows == {w \in 3..MaxSliderWindow : w % 2 = 1}

\* ------------------------------------------------------------------------
\* App: state and handlers
\* ------------------------------------------------------------------------

Cfg == [rangeMin |-> rangeMin, rangeMax |-> rangeMax, normMethod |-> normMethod,
        smoothingEnabled |-> smoothingEnabled, smoothingWindow |-> smoothingWindow]

\* const similarityMatrix = useMemo(...)
similarityMatrix == buildSimilarityMatrix(samples, Cfg)

InitApp ==
    /\ samples = <<>>
    /\ nextId = 0
    /\ rangeMin = 0
    /\ rangeMax = MAX_ALLOWED_WAVELENGTH
    /\ normMethod = "none"
    /\ smoothingEnabled = FALSE
    /\ smoothingWindow = 5
    /\ aiResult = "null"
    /\ analyzing = FALSE
    /\ calls = <<>>
    /\ aiReport = {}
    /\ clicks = 0

InitFn ==
    /\ fn = "idle"
    /\ input = <<>>
    /\ output = <<>>

Init == InitApp /\ InitFn

\* newSamples of handleFileUpload: one sample per file with at least one row,
\* each with a fresh id (Math.random().toString(36)), numbered from id on.
RECURSIVE newSamples(_, _)
newSamples(files, id) ==
    IF files = <<>> THEN <<>>
    ELSE IF Len(Head(files).data) > 0
    THEN <<[id |-> id + 1, name |-> Head(files).name, data |-> Head(files).data]>>
         \o newSamples(Tail(files), id + 1)
    ELSE newSamples(Tail(files), id)

\* Math.min(...allUploadedSamples.flatMap(s => s.data.map(d => d.wavelength)))
minWavelength(ss) ==
    RMinOf([k \in 1..Len(ss) |->
              RMinOf([m \in 1..Len(ss[k].data) |-> ss[k].data[m].wavelength])])

\* The handler runs to completion in one step (the awaits of parseFile are
\* not interleaved with other handlers here).
handleFileUpload(files) ==
    LET added == newSamples(files, nextId)
        allUploadedSamples == samples \o added
    IN  /\ nextId + Len(added) <= MaxUploads
        /\ samples' = allUploadedSamples
        /\ nextId' = nextId + Len(added)
        /\ rangeMin' = IF Len(allUploadedSamples) > 0 /\ rangeMin = 0
                       THEN RFloor(minWavelength(allUploadedSamples))
                       ELSE rangeMin
        /\ UNCHANGED <<rangeMax, normMethod, smoothingEnabled, smoothingWindow>>
        /\ UNCHANGED <<aiVars, fnVars>>

removeSample(id) ==
    /\ \E k \in 1..Len(samples) : samples[k].id = id
    /\ samples' = SelectSeq(samples, LAMBDA s : s.id # id)
    /\ aiResult' = "null"
    /\ aiReport' = {}
    /\ UNCHANGED <<analyzing, calls, clicks>>
    /\ UNCHANGED <<nextId, settingVars, fnVars>>

\* onChange={(e) => setRangeMin(parseInt(e.target.value))}
setRangeMin(v) ==
    /\ rangeMin' = v
    /\ UNCHANGED <<rangeMax, normMethod, smoothingEnabled, smoothingWindow>>
    /\ UNCHANGED <<sampleVars, aiVars, fnVars>>

\* onChange={(e) => setRangeMax(Math.min(parseInt(e.target.value), MAX_ALLOWED_WAVELENGTH))}
setRangeMax(v) ==
    /\ rangeMax' = IntMin(v, MAX_ALLOWED_WAVELENGTH)
    /\ UNCHANGED <<rangeMin, normMethod, smoothingEnabled, smoothingWindow>>
    /\ UNCHANGED <<sampleVars, aiVars, fnVars>>

setNormMethod(m) ==
    /\ normMethod' = m
    /\ UNCHANGED <<rangeMin, rangeMax, smoothingEnabled, smoothingWindow>>
    /\ UNCHANGED <<sampleVars, aiVars, fnVars>>

setSmoothingEnabled(b) ==
    /\ smoothingEnabled' = b
    /\ UNCHANGED <<rangeMin, rangeMax, normMethod, smoothingWindow>>
    /\ UNCHANGED <<sampleVars, aiVars, fnVars>>

setSmoothingWindow(w) ==
    /\ smoothingWindow' = w
    /\ UNCHANGED <<rangeMin, rangeMax, normMethod, smoothingEnabled>>
    /\ UNCHANGED <<sampleVars, aiVars, fnVars>>

\* What ai.models.generateContent can do: answer with text, answer without
\* text, or fail
Outcomes == {"text", "empty", "error"}

AnalysisText == "analysis"

\* getAIAnalysis: response.text || "No analysis generated.", or the message
\* of the catch block
getAIAnalysis(report, outcome) ==
    IF outcome = "text" THEN AnalysisText
    ELSE IF outcome = "empty" THEN "No analysis generated."
    ELSE "The analytical engine encountered an error. Check data formats."

MaxClicks == 2

\* handleAIAnalysis without `if (samples.length < 2) return`
handleAIAnalysisUnguarded ==
    /\ ~analyzing
    /\ clicks < MaxClicks
    /\ clicks' = clicks + 1
    /\ analyzing' = TRUE
    /\ calls' = Append(calls, [samples |-> samples, similarityMatrix |-> similarityMatrix])
    /\ UNCHANGED <<aiResult, aiReport>>
    /\ UNCHANGED <<sampleVars, settingVars, fnVars>>

\* handleAIAnalysis up to its await.  The button is disabled while analyzing.
handleAIAnalysis ==
    /\ ~analyzing
    /\ clicks < MaxClicks
    /\ clicks' = clicks + 1
    /\ IF Len(samples) < 2
       THEN UNCHANGED <<analyzing, calls>>
       ELSE /\ analyzing' = TRUE
            /\ calls' = Append(calls, [samples |-> samples, similarityMatrix |-> similarityMatrix])
    /\ UNCHANGED <<aiResult, aiReport>>
    /\ UNCHANGED <<sampleVars, settingVars, fnVars>>

\* handleAIAnalysis after its await: setAiResult(result); setAnalyzing(false)
handleAIAnalysisResume(outcome) ==
    /\ calls # <<>>
    /\ aiResult' = getAIAnalysis(Head(calls), outcome)
    /\ aiReport' = {Head(calls).samples[k].id : k \in 1..Len(Head(calls).samples)}
    /\ analyzing' = FALSE
    /\ calls' = Tail(calls)
    /\ UNCHANGED clicks
    /\ UNCHANGED <<sampleVars, settingVars, fnVars>>

Upload == \E files \in SeqsUpTo(Files, MaxFilesPerUpload) \ {<<>>} : handleFileUpload(files)

Remove == \E id \in 1..MaxUploads + 1 : removeSample(id)

ChangeRangeMin == \E v \in RangeInputs : setRangeMin(v)

ChangeRangeMax == \E v \in RangeInputs : setRangeMax(v)

ChangeNormMethod == \E m \in Methods : setNormMethod(m)

ChangeSmoothingEnabled == \E b \in BOOLEAN : setSmoothingEnabled(b)

ChangeSmoothingWindow == \E w \in SliderWindows : setSmoothingWindow(w)

Next ==
    \/ Upload
    \/ Remove
    \/ ChangeRangeMin
    \/ ChangeRangeMax
    \/ ChangeNormMethod
    \/ ChangeSmoothingEnabled
    \/ ChangeSmoothingWindow

Spec == Init /\ [][Next]_vars

\* The sample list and the AI analysis: the settings stay as uploaded.  The
\* call to the narrative service settles (the SDK call resolves or rejects),
\* so the handler resumes.
AIClick == handleAIAnalysis

AIResume == \E outcome \in Outcomes : handleAIAnalysisResume(outcome)

NextAI ==
    \/ Upload
    \/ Remove
    \/ AIClick
    \/ AIResume

SpecAI == Init /\ [][NextAI]_vars /\ WF_vars(AIResume)

\* ------------------------------------------------------------------------
\* The functions of mathUtils and the report assembler applied on their own:
\* the arguments are drawn from bounded sets, the state records the call.
\* ------------------------------------------------------------------------

Values == {IntR(v) : v \in (-1)..MaxVal}

ValueSeqs == SeqsUpTo(Values, MaxLen)

Windows == (-1)..MaxWindow

\* Wavelengths of generated spectra: 298, 299.25, 300
FnWavelengths == <<IntR(298), <<1197, 4>>, IntR(300)>>

FnSpectra == SpectraOver(FnWavelengths, 0..MaxAbs)

\* Query wavelengths: every quarter from 297 to 301
Queries == {Norm(n, 4) : n \in (4 * 297)..(4 * 301)}

\* Wavelengths of the samples of a generated report
ReportWavelengths == <<IntR(298), IntR(299), IntR(300)>>

ReportSpectra == SpectraOver(ReportWavelengths, 0..MaxAbs) \ {<<>>}

\* Settings of a generated report (the window stays at its default while
\* smoothing is off)
FnCfgs ==
    {c \in [rangeMin : {0, 299}, rangeMax : {300}, normMethod : Methods,
            smoothingEnabled : BOOLEAN, smoothingWindow : SliderWindows] :
        c.smoothingEnabled \/ c.smoothingWindow = 5}

FnSmooth ==
    /\ fn = "idle"
    /\ \E v \in ValueSeqs, w \in Windows :
        /\ input' = [values |-> v, window |-> w]
        /\ output' = applyMovingAverage(v, w)
    /\ fn' = "applyMovingAverage"
    /\ UNCHANGED <<sampleVars, settingVars, aiVars>>

FnNormalize ==
    /\ fn = "idle"
    /\ \E v \in ValueSeqs, m \in Methods :
        /\ input' = [values |-> v, method |-> m]
        /\ output' = normalizeValues(v, m)
    /\ fn' = "normalizeValues"
    /\ UNCHANGED <<sampleVars, settingVars, aiVars>>

FnInterpolate ==
    /\ fn = "idle"
    /\ \E d \in FnSpectra \ {<<>>}, w \in Queries :
        /\ input' = [data |-> d, targetW |-> w]
        /\ output' = interpolate(d, w)
    /\ fn' = "interpolate"
    /\ UNCHANGED <<sampleVars, settingVars, aiVars>>

FnAlign ==
    /\ fn = "idle"
    /\ \E a \in FnSpectra, b \in FnSpectra :
        /\ input' = [dataA |-> a, dataB |-> b]
        /\ output' = getOverlapData(a, b)
    /\ fn' = "getOverlapData"
    /\ UNCHANGED <<sampleVars, settingVars, aiVars>>

\* The report of two samples that satisfy the ingestion contract
FnReport ==
    /\ fn = "idle"
    /\ \E a \in ReportSpectra, b \in ReportSpectra, cfg \in FnCfgs :
        /\ input' = [samples |-> <<[id |-> 1, name |-> "s1", data |-> a],
                                   [id |-> 2, name |-> "s2", data |-> b]>>,
                     cfg |-> cfg]
        /\ output' = buildSimilarityMatrix(input'.samples, cfg)
    /\ fn' = "similarityMatrix"
    /\ UNCHANGED <<sampleVars, settingVars, aiVars>>

\* Spectra over ws whose absorptions are the numbers of vals
SpectraOfValues(ws, vals) ==
    UNION { { [k \in 1..Cardinality(I) |->
                 [wavelength |-> ws[SeqOfSet(I)[k]], absorption |-> f[SeqOfSet(I)[k]]]]
              : f \in [I -> vals] }
            : I \in SUBSET (1..Len(ws)) }

\* Absorptions and series values of the floating-point calls: numbers with a
\* significand of at most MantissaBits bits
FloatAbsorptions == {<<1, 512>>, One, <<513, 256>>}

FloatSpectra == SpectraOfValues(ReportWavelengths, FloatAbsorptions) \ {<<>>}

FloatValues == {Zero, One, <<33, 16>>}

MaxFloatLen == 3

\* Aligned points at 298, 298.5, ... with yA, yB from vals, up to n points
PointSeqs(vals, n) ==
    {[k \in 1..Len(q) |-> [x |-> Norm(595 + k, 2), yA |-> q[k][1], yB |-> q[k][2]]]
       : q \in SeqsUpTo(vals \X vals, n)}

FnAlignFl ==
    /\ fn = "idle"
    /\ \E a \in FloatSpectra, b \in FloatSpectra :
        /\ input' = [dataA |-> a, dataB |-> b]
        /\ output' = getOverlapDataFl(a, b)
    /\ fn' = "getOverlapDataFl"
    /\ UNCHANGED <<sampleVars, settingVars, aiVars>>

FnPearsonFl ==
    /\ fn = "idle"
    /\ \E common \in PointSeqs(FloatValues, MaxFloatLen) :
        /\ input' = [common |-> common]
        /\ output' = calculatePearsonFl(common)
    /\ fn' = "calculatePearsonFl"
    /\ UNCHANGED <<sampleVars, settingVars, aiVars>>

NextFn ==
    \/ FnSmooth
    \/ FnNormalize
    \/ FnInterpolate
    \/ FnAlign

SpecFn == Init /\ [][NextFn]_vars

NextReport == FnReport

SpecReport == Init /\ [][NextReport]_vars

MaxMetricLen == 3

\* Series values of the metric calls: a negative, a zero and a positive one
MetricValues == {IntR(-1), Zero, One}

\* The five metrics of one aligned-pair sequence, rmse and euclidean under
\* each policy
FnMetrics ==
    /\ fn = "idle"
    /\ \E common \in PointSeqs(MetricValues, MaxMetricLen) :
        /\ input' = [common |-> common]
        /\ output' = [pearson   |-> calculatePearson(common),
                      cosine    |-> calculateCosineSimilarity(common),
                      rmse      |-> [m \in Methods |-> calculateRMSE(common, m)],
                      euclidean |-> [m \in Methods |-> calculateEuclidean(common, m)],
                      sid       |-> calculateSID(common)]
    /\ fn' = "metrics"
    /\ UNCHANGED <<sampleVars, settingVars, aiVars>>

NextMetric == FnMetrics

SpecMetric == Init /\ [][NextMetric]_vars

NextFloat ==
    \/ FnAlignFl
    \/ FnPearsonFl

SpecFloat == Init /\ [][NextFloat]_vars

\* ------------------------------------------------------------------------
\* Properties
\* ------------------------------------------------------------------------

\* The sum of v[j + 1] over the 0-based indices j in J
RECURSIVE SumAt(_, _)
SumAt(v, J) ==
    IF J = {} THEN Zero
    ELSE LET j == CHOOSE x \in J : TRUE
         IN  RAdd(v[j + 1], SumAt(v, J \ {j}))

\* The sum of the absolute values of v
RECURSIVE SumAbs(_)
SumAbs(v) == IF v = <<>> THEN Zero ELSE RAdd(RAbs(Head(v)), SumAbs(Tail(v)))

\* C1: the similarity list holds at most one result per index pair (i, j),
\* only for i < j, in lexicographic order of (i, j), each carrying the names
\* of samples i and j; with fewer than two samples it is empty.
C1_PairOrder ==
    LET ps == pushes(samples, Cfg)
        sm == similarityMatrix
        n == Len(samples)
    IN  /\ Len(sm) = Len(ps)
        /\ \A k \in 1..Len(ps) :
              /\ 1 <= ps[k].i /\ ps[k].i < ps[k].j /\ ps[k].j <= n
              /\ sm[k].sampleA = samples[ps[k].i].name
              /\ sm[k].sampleB = samples[ps[k].j].name
        /\ \A k \in 1..Len(ps), m \in 1..Len(ps) :
              k < m => \/ ps[k].i < ps[m].i
                       \/ (ps[k].i = ps[m].i /\ ps[k].j < ps[m].j)
        /\ n < 2 => sm = <<>>

\* C1 witness: three samples of which the first two do not overlap, so the
\* list is the results of the pairs (1, 3) and (2, 3), in that order.
C1_Witness ==
    LET ps == pushes(samples, Cfg)
    IN  /\ Len(samples) = 3
        /\ Len(ps) = 2
        /\ ps[1].i = 1 /\ ps[1].j = 3
        /\ ps[2].i = 2 /\ ps[2].j = 3

\* An aligned point passes the active range filter.
Survives(p) ==
    /\ RLe(IntR(rangeMin), p.x)
    /\ RLe(p.x, IntR(rangeMax))
    /\ RLe(p.x, IntR(MAX_ALLOWED_WAVELENGTH))

\* C2: for every pair i < j the list holds a result for the pair if and only
\* if at least one aligned point of the pair passes the active range filter.
C2_ResultIffSurvivor ==
    LET ps == pushes(samples, Cfg)
    IN  \A i \in 1..Len(samples), j \in 1..Len(samples) :
            i < j =>
                LET common == getOverlapData(samples[i].data, samples[j].data)
                IN  (\E k \in 1..Len(ps) : ps[k].i = i /\ ps[k].j = j)
                    <=> (\E m \in 1..Len(common) : Survives(common[m]))

\* C2 witness: one pair whose spectra overlap but whose aligned points all
\* fall outside the range is skipped while another pair has a result.
C2_Witness ==
    LET ps == pushes(samples, Cfg)
    IN  /\ Len(ps) >= 1
        /\ \E i \in 1..Len(samples), j \in 1..Len(samples) :
              /\ i < j
              /\ Len(getOverlapData(samples[i].data, samples[j].data)) > 0
              /\ \A k \in 1..Len(ps) : ~(ps[k].i = i /\ ps[k].j = j)

\* C3: align(A, B) is exactly the points x = lo + 0.5*k, k >= 0, lo + 0.5*k <= hi,
\* in strictly increasing order of x, where lo is the larger first wavelength
\* and hi the smaller last wavelength; it is empty exactly when lo > hi or a
\* spectrum is empty, and then the report of the two samples is empty under
\* every setting.
C3_AlignGrid ==
    fn = "getOverlapData" =>
        LET a == input.dataA
            b == input.dataB
        IN  IF a = <<>> \/ b = <<>>
            THEN output = <<>>
            ELSE LET lo == RMax(a[1].wavelength, b[1].wavelength)
                     hi == RMin(a[Len(a)].wavelength, b[Len(b)].wavelength)
                 IN  /\ \A k \in 1..Len(output) :
                            /\ output[k].x = RAdd(lo, Norm(k - 1, 2))
                            /\ RLe(output[k].x, hi)
                     /\ RLt(hi, RAdd(lo, Norm(Len(output), 2)))
                     /\ \A k \in 1..(Len(output) - 1) : RLt(output[k].x, output[k + 1].x)
                     /\ (output = <<>>) <=> RLt(hi, lo)
                     /\ output = <<>> =>
                            \A cfg \in FnCfgs :
                                buildSimilarityMatrix(
                                    <<[id |-> 1, name |-> "s1", data |-> a],
                                      [id |-> 2, name |-> "s2", data |-> b]>>, cfg) = <<>>

\* C3 witness: an overlap that starts off the half-integer grid (at 299.25)
\* and ends on 300, aligned to the two points 299.25 and 299.75.
C3_Witness ==
    /\ fn = "getOverlapData"
    /\ Len(output) = 2
    /\ output[1].x = <<1197, 4>>
    /\ output[2].x = <<1199, 4>>

C9_MovingAverage ==
    fn = "applyMovingAverage" =>
        LET v == input.values
            w == input.window
            n == Len(v)
        IN  /\ Len(output) = n
            /\ (w <= 1 \/ n = 0) => output = v
            /\ w > 1 =>
                 \A i \in 0..(n - 1) :
                    LET J == {j \in 0..(n - 1) : i - (w \div 2) <= j /\ j <= i + (w \div 2)}
                    IN  output[i + 1] = RDiv(SumAt(v, J), IntR(Cardinality(J)))

\* C9 witness: a window of 3 over four values, where the ends average two
\* elements and the middle three, and the output differs from the input.
C9_Witness ==
    /\ fn = "applyMovingAverage"
    /\ input.window = 3
    /\ input.values = <<IntR(1), IntR(2), IntR(0), IntR(-1)>>
    /\ output = <<<<3, 2>>, IntR(1), <<1, 3>>, <<-1, 2>>>>

\* C10: normalize(v, area) divides each value by the sum of the absolute
\* values of v, so the absolute values of the output sum to 1, unless that
\* sum is zero, and then the output is the input.
C10_AreaNormalization ==
    (fn = "normalizeValues" /\ input.method = "area") =>
        LET v == input.values
            total == SumAbs(v)
        IN  IF total = Zero
            THEN output = v
            ELSE /\ Len(output) = Len(v)
                 /\ \A k \in 1..Len(v) : output[k] = RDiv(v[k], total)
                 /\ SumAbs(output) = One

\* C10 witness: a sequence with a negative value whose signed sum is zero
\* and whose absolute sum is not.
C10_Witness ==
    /\ fn = "normalizeValues"
    /\ input.method = "area"
    /\ input.values = <<IntR(1), IntR(-1)>>
    /\ output = <<<<1, 2>>, <<-1, 2>>>>

\* The report of the generated samples under policy m, the other settings kept
ReportUnder(m) == buildSimilarityMatrix(input.samples, [input.cfg EXCEPT !.normMethod = m])

\* The aligned points of the generated pair, those that pass the range
\* filter, and the points the metrics are computed on
RptCommon == getOverlapData(input.samples[1].data, input.samples[2].data)

RptFiltered == filteredCommon(RptCommon, input.cfg.rangeMin, input.cfg.rangeMax)

RptPoints == pairPoints(input.samples[1], input.samples[2], input.cfg)

AllFinite(vs) == \A k \in 1..Len(vs) : IsFinite(vs[k])

AllZero(vs) == \A k \in 1..Len(vs) : vs[k] = Zero

IsConstant(vs) == \A k \in 1..Len(vs) : vs[k] = vs[1]

\* C5 (as claimed): rmse and euclidean themselves substitute area for none:
\* rmse(pairs, none) = rmse(pairs, area) and euclidean(pairs, none) =
\* euclidean(pairs, area) for every aligned-pair sequence.
C5_FunctionsSubstitute ==
    fn = "similarityMatrix" =>
        LET pts == RptPoints
        IN  /\ calculateRMSE(pts, "none") = calculateRMSE(pts, "area")
            /\ calculateEuclidean(pts, "none") = calculateEuclidean(pts, "area")

\* C5 (amended): the substitution is made by the report assembler: the rmse
\* and euclidean of every result are calculateRMSE and calculateEuclidean of
\* the pair's points under area when the selected policy is none, and under
\* the selected policy when it is area or minmax; the two functions apply the
\* policy they are handed, and handed none they compare the raw values.
C5_ReportSubstitutes ==
    fn = "similarityMatrix" =>
        LET pts == RptPoints
            m == input.cfg.normMethod
            used == IF m = "none" THEN "area" ELSE m
        IN  /\ \A k \in 1..Len(output) :
                  /\ output[k].rmse = calculateRMSE(pts, used)
                  /\ output[k].euclidean = calculateEuclidean(pts, used)
            /\ Len(pts) > 0 =>
                  /\ calculateRMSE(pts, "none")
                       = Sqrt(RDiv(SumSqDiff(ColA(pts), ColB(pts)), IntR(Len(pts))))
                  /\ calculateEuclidean(pts, "none") = Sqrt(SumSqDiff(ColA(pts), ColB(pts)))

\* C5 witness: under policy none the result carries the area-normalized
\* rmse, which differs from the rmse of the raw values.
C5_Witness ==
    /\ fn = "similarityMatrix"
    /\ input.cfg.normMethod = "none"
    /\ Len(output) = 1
    /\ output[1].rmse = calculateRMSE(RptPoints, "area")
    /\ output[1].rmse # calculateRMSE(RptPoints, "none")

\* C6 (in exact arithmetic): for samples that satisfy the ingestion contract no step of the
\* pipeline divides by zero or takes the logarithm of a non-positive number:
\* the interpolated, smoothed and normalized values are finite, every
\* logarithm argument of SID is positive, and every metric of every result
\* is finite.
C6_AllFinite ==
    fn = "similarityMatrix" =>
        LET common == RptCommon
            pts == RptPoints
        IN  /\ AllFinite(ColA(common)) /\ AllFinite(ColB(common))
            /\ AllFinite(ColA(pts)) /\ AllFinite(ColB(pts))
            /\ \A m \in Methods :
                  /\ AllFinite(normalizeValues(ColA(pts), m))
                  /\ AllFinite(normalizeValues(ColB(pts), m))
            /\ \A k \in 1..Len(output) :
                  /\ RootIsFinite(output[k].pearson)
                  /\ RootIsFinite(output[k].rmse)
                  /\ RootIsFinite(output[k].euclidean)
                  /\ RootIsFinite(output[k].cosine)
                  /\ SidIsFinite(output[k].sid)

\* C6 (in exact arithmetic) witness: a result for a pair whose first series is all zero (zero area
\* sum, zero range, zero variance, zero magnitude) over at least two smoothed
\* points, under min-max normalization.
C6_Witness ==
    /\ fn = "similarityMatrix"
    /\ input.cfg.normMethod = "minmax"
    /\ input.cfg.smoothingEnabled
    /\ Len(output) = 1
    /\ Len(RptPoints) >= 2
    /\ AllZero(ColA(RptPoints))
    /\ ~IsConstant(ColB(RptPoints))

\* C7 (as claimed): for identical spectra every aligned point has yA = yB
\* and the result has rmse = 0, euclidean = 0, sid = 0, cosine = 1 whenever
\* the values that pass the range filter are not all zero, and pearson = 1
\* whenever at least two points pass and those values are not constant.
C7_IdenticalSurviving ==
    (fn = "similarityMatrix" /\ input.samples[1].data = input.samples[2].data) =>
        LET surviving == RptFiltered
        IN  /\ \A k \in 1..Len(RptCommon) : RptCommon[k].yA = RptCommon[k].yB
            /\ \A k \in 1..Len(output) :
                  /\ output[k].rmse = RootZero
                  /\ output[k].euclidean = RootZero
                  /\ SidIsZero(output[k].sid)
                  /\ ~AllZero(ColA(surviving)) => output[k].cosine = RootOne
                  /\ (Len(surviving) >= 2 /\ ~IsConstant(ColA(surviving)))
                        => output[k].pearson = RootOne

\* C7 (amended): for identical spectra every aligned point has yA = yB, also
\* after smoothing, and the result has rmse = 0, euclidean = 0, sid = 0,
\* cosine = 1 whenever the values the metrics are computed on (the values
\* that pass the range filter, smoothed when smoothing is enabled) are not
\* all zero, and pearson = 1 whenever at least two points pass and those
\* values are not constant.
C7_IdenticalSmoothed ==
    (fn = "similarityMatrix" /\ input.samples[1].data = input.samples[2].data) =>
        LET pts == RptPoints
        IN  /\ \A k \in 1..Len(RptCommon) : RptCommon[k].yA = RptCommon[k].yB
            /\ \A k \in 1..Len(pts) : pts[k].yA = pts[k].yB
            /\ \A k \in 1..Len(output) :
                  /\ output[k].rmse = RootZero
                  /\ output[k].euclidean = RootZero
                  /\ SidIsZero(output[k].sid)
                  /\ ~AllZero(ColA(pts)) => output[k].cosine = RootOne
                  /\ (Len(pts) >= 2 /\ ~IsConstant(ColA(pts)))
                        => output[k].pearson = RootOne

\* C7 witness: identical, non-constant spectra with smoothing enabled whose
\* result has pearson = 1, cosine = 1 and rmse = 0.
C7_Witness ==
    /\ fn = "similarityMatrix"
    /\ input.samples[1].data = input.samples[2].data
    /\ input.cfg.smoothingEnabled
    /\ Len(output) = 1
    /\ ~IsConstant(ColA(RptPoints))
    /\ output[1].pearson = RootOne
    /\ output[1].cosine = RootOne
    /\ output[1].rmse = RootZero

\* C8: with the samples, range and smoothing fixed, the reports under none,
\* area and minmax have the same pairs with the same pearson, cosine and sid
\* (sid being taken on the floored values divided by their sum), and the
\* report under none is the report under area.
C8_PolicyOnlyInDistances ==
    (fn = "similarityMatrix" /\ input.cfg.normMethod = "none") =>
        LET area == ReportUnder("area")
            minmax == ReportUnder("minmax")
            pts == RptPoints
            floorA == [k \in 1..Len(pts) |-> floorEps(pts[k].yA)]
            floorB == [k \in 1..Len(pts) |-> floorEps(pts[k].yB)]
        IN  /\ output = area
            /\ Len(minmax) = Len(output)
            /\ \A k \in 1..Len(output) :
                  /\ minmax[k].sampleA = output[k].sampleA
                  /\ minmax[k].sampleB = output[k].sampleB
                  /\ minmax[k].pearson = output[k].pearson
                  /\ minmax[k].cosine = output[k].cosine
                  /\ minmax[k].sid = output[k].sid
                  /\ \A i \in 1..Len(pts) :
                        /\ output[k].sid[i].p = [v |-> floorA[i], s |-> ESumAbs(floorA)]
                        /\ output[k].sid[i].q = [v |-> floorB[i], s |-> ESumAbs(floorB)]

\* C8 witness: a pair whose rmse and euclidean under minmax differ from those
\* under none, so the policy does reach the report.
C8_Witness ==
    /\ fn = "similarityMatrix"
    /\ input.cfg.normMethod = "none"
    /\ Len(output) = 1
    /\ ReportUnder("minmax")[1].rmse # output[1].rmse
    /\ ReportUnder("minmax")[1].euclidean # output[1].euclidean

\* C11: for a non-empty v, normalize(v, minmax) has the length of v and every
\* value in [0, 1]; if v is not constant the output is 0 exactly where v is
\* at its minimum and 1 exactly where v is at its maximum (so its minimum is
\* 0 and its maximum 1); if v is constant every output value is 0.
C11_MinMaxNormalization ==
    (fn = "normalizeValues" /\ input.method = "minmax" /\ Len(input.values) > 0) =>
        LET v == input.values
            lo == CHOOSE x \in {v[k] : k \in 1..Len(v)} : \A k \in 1..Len(v) : RLe(x, v[k])
            hi == CHOOSE x \in {v[k] : k \in 1..Len(v)} : \A k \in 1..Len(v) : RLe(v[k], x)
        IN  /\ Len(output) = Len(v)
            /\ \A k \in 1..Len(v) : RLe(Zero, output[k]) /\ RLe(output[k], One)
            /\ IsConstant(v) => \A k \in 1..Len(v) : output[k] = Zero
            /\ ~IsConstant(v) =>
                  /\ \A k \in 1..Len(v) : (v[k] = lo) <=> (output[k] = Zero)
                  /\ \A k \in 1..Len(v) : (v[k] = hi) <=> (output[k] = One)
                  /\ \E k \in 1..Len(v) : output[k] = Zero
                  /\ \E k \in 1..Len(v) : output[k] = One

\* C11 witness: a non-constant sequence with a negative minimum and a value
\* strictly between minimum and maximum.
C11_Witness ==
    /\ fn = "normalizeValues"
    /\ input.method = "minmax"
    /\ input.values = <<IntR(2), IntR(-1), IntR(1)>>
    /\ output = <<One, Zero, <<2, 3>>>>

\* C18: the smoother only uses floor(window / 2): for every v and every
\* k >= 1, smooth(v, 2k) = smooth(v, 2k + 1), and an interior element of a
\* sequence of at least 2k + 1 values is averaged over 2k + 1 elements.
C18_EvenWindow ==
    (fn = "applyMovingAverage" /\ input.window >= 2 /\ input.window % 2 = 0) =>
        LET v == input.values
            k == input.window \div 2
            n == Len(v)
        IN  /\ output = applyMovingAverage(v, 2 * k + 1)
            /\ \A i \in 0..(n - 1) :
                  (i - k >= 0 /\ i + k <= n - 1) =>
                      /\ WindowAcc(v, i - k, i + k).count = 2 * k + 1
                      /\ output[i + 1] = RDiv(SumAt(v, (i - k)..(i + k)), IntR(2 * k + 1))

\* C18 witness: window 2 over three values averages all three for the middle
\* element, as window 3 does.
C18_Witness ==
    /\ fn = "applyMovingAverage"
    /\ input.window = 2
    /\ input.values = <<IntR(0), IntR(0), IntR(2)>>
    /\ output = <<Zero, <<2, 3>>, One>>

\* The wavelengths of a spectrum
Grid(data) == [k \in 1..Len(data) |-> data[k].wavelength]

\* C14 (as claimed): if A and B have the same wavelength grid, every point of
\* align(A, B) whose x is a wavelength of the grid carries exactly A's and
\* B's original absorption at that wavelength.
C14_SameGridExact ==
    (fn = "getOverlapDataFl" /\ Grid(input.dataA) = Grid(input.dataB)) =>
        \A k \in 1..Len(output), g \in 1..Len(input.dataA) :
            output[k].x = input.dataA[g].wavelength =>
                /\ output[k].yA = input.dataA[g].absorption
                /\ output[k].yB = input.dataB[g].absorption

\* C12 (as claimed, pearson): pearson returns 0 when there are fewer than 2
\* points or when either series has zero variance, that is, is constant.
C12_PearsonFallback ==
    fn = "calculatePearsonFl" =>
        LET common == input.common
        IN  (Len(common) < 2 \/ IsConstant(ColA(common)) \/ IsConstant(ColB(common)))
                => output = RootZero

\* The points of common with yA and yB exchanged
Swapped(common) ==
    [k \in 1..Len(common) |-> [x |-> common[k].x, yA |-> common[k].yB, yB |-> common[k].yA]]

\* Two SID values are equal term by term: (p - q)(ln p - ln q) is unchanged
\* when p and q are exchanged.
SidEq(s, t) ==
    /\ Len(s) = Len(t)
    /\ \A k \in 1..Len(s) :
          \/ QEq(s[k].p, t[k].p) /\ QEq(s[k].q, t[k].q)
          \/ QEq(s[k].p, t[k].q) /\ QEq(s[k].q, t[k].p)

\* C13: exchanging yA and yB at every point leaves pearson, cosine, rmse and
\* euclidean (under every policy) and sid unchanged.
C13_Symmetric ==
    fn = "metrics" =>
        LET sw == Swapped(input.common)
        IN  /\ calculatePearson(sw) = output.pearson
            /\ calculateCosineSimilarity(sw) = output.cosine
            /\ \A m \in Methods :
                  /\ calculateRMSE(sw, m) = output.rmse[m]
                  /\ calculateEuclidean(sw, m) = output.euclidean[m]
            /\ SidEq(calculateSID(sw), output.sid)

\* C13 witness: two different series, one with a non-positive value, whose
\* metrics are not the degenerate ones.
C13_Witness ==
    /\ fn = "metrics"
    /\ ColA(input.common) = <<IntR(-1), One, One>>
    /\ ColB(input.common) = <<Zero, Zero, One>>
    /\ output.pearson # RootZero
    /\ output.cosine # RootZero
    /\ output.rmse["area"] # RootZero
    /\ ~SidIsZero(output.sid)

\* C6 (as claimed, pearson): the pearson of every result is a finite number.
C6_PearsonFinite ==
    fn = "calculatePearsonFl" => RootIsFinite(output)

\* C15 (as claimed): sampleA and sampleB identify the pair's samples: no two
\* results of a report carry the same (sampleA, sampleB), and the samples
\* that a result's fields designate are exactly the pair it was computed for.
C15_FieldsIdentifyPair ==
    LET ps == pushes(samples, Cfg)
        n == Len(samples)
    IN  /\ \A k \in 1..Len(ps), m \in 1..Len(ps) :
              k # m => <<ps[k].result.sampleA, ps[k].result.sampleB>>
                         # <<ps[m].result.sampleA, ps[m].result.sampleB>>
        /\ \A k \in 1..Len(ps) :
              {<<i, j>> \in (1..n) \X (1..n) :
                   /\ i < j
                   /\ samples[i].name = ps[k].result.sampleA
                   /\ samples[j].name = ps[k].result.sampleB}
                = {<<ps[k].i, ps[k].j>>}

\* The x of the points of a sequence, in order
Xs(points) == [k \in 1..Len(points) |-> points[k].x]

\* C16: the points a result is computed on are exactly the aligned points of
\* its pair with rangeMin <= x <= min(rangeMax, 300), in order, and a
\* rangeMax above 300 gives the report of rangeMax = 300.
C16_RangeFilter ==
    LET ps == pushes(samples, Cfg)
    IN  /\ \A k \in 1..Len(ps) :
              LET sA == samples[ps[k].i]
                  sB == samples[ps[k].j]
                  common == getOverlapData(sA.data, sB.data)
                  pts == pairPoints(sA, sB, Cfg)
              IN  /\ Xs(pts) = Xs(SelectSeq(common, Survives))
                  /\ \A m \in 1..Len(pts) :
                        /\ RLe(IntR(rangeMin), pts[m].x)
                        /\ RLe(pts[m].x, IntR(IntMin(rangeMax, 300)))
                  /\ ps[k].result.pearson = calculatePearson(pts)
        /\ rangeMax = MAX_ALLOWED_WAVELENGTH =>
              \A v \in {301, 302} :
                  buildSimilarityMatrix(samples, [Cfg EXCEPT !.rangeMax = v])
                    = [k \in 1..Len(ps) |-> ps[k].result]

\* C16 witness: a pair with a result whose aligned points reach beyond 300
\* and start below rangeMin, so the filter cuts at both ends.
C16_Witness ==
    LET ps == pushes(samples, Cfg)
    IN  /\ rangeMax = MAX_ALLOWED_WAVELENGTH
        /\ \E k \in 1..Len(ps) :
              LET common == getOverlapData(samples[ps[k].i].data, samples[ps[k].j].data)
              IN  /\ \E m \in 1..Len(common) : RLt(IntR(300), common[m].x)
                  /\ \E m \in 1..Len(common) : RLt(common[m].x, IntR(rangeMin))
                  /\ \E m \in 1..Len(common) : common[m].x = IntR(300) /\ Survives(common[m])

\* The aligned points of the generated pair with rangeMin <= x <= min(rangeMax, 300)
RptInRange ==
    SelectSeq(RptCommon,
              LAMBDA p : /\ RLe(IntR(input.cfg.rangeMin), p.x)
                         /\ RLe(p.x, IntR(IntMin(input.cfg.rangeMax, 300))))

\* C17: smoothing comes after the range filter, on the surviving yA and the
\* surviving yB separately, re-paired by position: the points the metrics are
\* computed on have the count and the x of the surviving points, their yA is
\* the moving average of the surviving yA alone and their yB that of the
\* surviving yB alone, and with smoothing disabled they are the surviving
\* points unchanged.
C17_SmoothAfterFilter ==
    fn = "similarityMatrix" =>
        LET f == RptInRange
            pts == RptPoints
            cfg == input.cfg
        IN  /\ Len(pts) = Len(f)
            /\ Xs(pts) = Xs(f)
            /\ cfg.smoothingEnabled =>
                  /\ ColA(pts) = applyMovingAverage(ColA(f), cfg.smoothingWindow)
                  /\ ColB(pts) = applyMovingAverage(ColB(f), cfg.smoothingWindow)
            /\ ~cfg.smoothingEnabled => pts = f
            /\ \A k \in 1..Len(output) :
                  /\ output[k].pearson = calculatePearson(pts)
                  /\ output[k].cosine = calculateCosineSimilarity(pts)
                  /\ output[k].rmse = calculateRMSE(pts, calcMethod(cfg.normMethod))
                  /\ output[k].euclidean = calculateEuclidean(pts, calcMethod(cfg.normMethod))
                  /\ output[k].sid = calculateSID(pts)

\* C17 witness: smoothing enabled, the filter drops aligned points, at least
\* two survive, and smoothing changes the surviving yA.
C17_Witness ==
    /\ fn = "similarityMatrix"
    /\ input.cfg.smoothingEnabled
    /\ Len(output) = 1
    /\ Len(RptInRange) >= 2
    /\ Len(RptInRange) < Len(RptCommon)
    /\ ColA(RptPoints) # ColA(RptInRange)
    /\ ColB(RptPoints) = ColB(RptInRange)

\* The ids of the samples removed so far (ids are never reused)
RemovedIds == (1..nextId) \ {samples[k].id : k \in 1..Len(samples)}

\* C19 (as claimed): once a sample has been removed, the displayed AI
\* interpretation is absent or was computed from a report without it.
C19_NoRemovedSampleInAnalysis ==
    aiResult = AnalysisText => aiReport \cap RemovedIds = {}

====
